---- MODULE Spec2Model ----
(***************************************************************************)
(* Model of the page loader (src/src/pageLoader.js, the version with error *)
(* handling, lines 240-632): load() fetches one page, scans it for         *)
(* img / stylesheet / script / canonical references of the same host,      *)
(* downloads them stage by stage, rewrites the references textually and    *)
(* saves the page.                                                         *)
(*                                                                         *)
(* Text (documents, URLs, paths, file names) is a sequence of atoms.  An   *)
(* atom is one character, except for markup that no reference text can     *)
(* contain ("<img", "src=", ...), which is kept as one atom.               *)
(***************************************************************************)
EXTENDS Integers, Sequences, FiniteSets, TLC

VARIABLES
    pc,           \* position of load(): idle, page, mkdir, img, css, js, canonical, save, done, failed
    url,          \* argument url of load()
    outputDir,    \* argument outputDir of load()
    html,         \* response.data of the page request
    modifiedHtml, \* processAllResources: the document being rewritten
    tasks,        \* the resource promises created so far, in creation order
    requests,     \* every URL handed to axios.get, in order
    pageResp,     \* what the transport answered to the page request
    dirs,         \* directories that exist (absolute paths)
    files,        \* files on disk: absolute path -> content
    result,       \* what load() returned or threw
    calls,        \* calls of the URL normalizer made so far: function, argument, value
    other         \* a second invocation of load() on the same output directory

vars == <<pc, url, outputDir, html, modifiedHtml, tasks, requests, pageResp, dirs, files, result,
          calls, other>>

(***************************************************************************)
(* Bounds                                                                  *)
(***************************************************************************)
\* Number of markup fragments a served document is made of.
MaxElems == 2

(***************************************************************************)
(* Strings                                                                 *)
(***************************************************************************)
\* s contains p at offset i (1-based)
MatchAt(s, p, i) ==
    /\ i >= 1
    /\ i + Len(p) - 1 <= Len(s)
    /\ \A k \in 1..Len(p) : s[i + k - 1] = p[k]

\* String.prototype.indexOf, 1-based; 0 when p does not occur in s
IndexOf(s, p) ==
    LET I == {i \in 1..(Len(s) - Len(p) + 1) : MatchAt(s, p, i)}
    IN  IF I = {} THEN 0 ELSE CHOOSE i \in I : \A j \in I : i <= j

\* String.prototype.includes
Includes(s, p) == IndexOf(s, p) # 0

\* String.prototype.replace(p, r) with a string pattern: the FIRST occurrence only
ReplaceFirst(s, p, r) ==
    LET i == IndexOf(s, p)
    IN  IF i = 0 THEN s
        ELSE SubSeq(s, 1, i - 1) \o r \o SubSeq(s, i + Len(p), Len(s))

\* index of the first atom a at or after position i, Len(s)+1 when there is none
FirstAt(s, i, a) ==
    LET I == {j \in i..Len(s) : s[j] = a}
    IN  IF I = {} THEN Len(s) + 1 ELSE CHOOSE j \in I : \A k \in I : j <= k

\* index of the last atom a of s, 0 when there is none
LastIndexOf(s, a) ==
    LET I == {j \in 1..Len(s) : s[j] = a}
    IN  IF I = {} THEN 0 ELSE CHOOSE j \in I : \A k \in I : j >= k

\* the characters of [a-zA-Z0-9]
AlNum ==
    {"a", "b", "c", "d", "e", "f", "g", "h", "i", "j", "k", "l", "m",
     "n", "o", "p", "q", "r", "s", "t", "u", "v", "w", "x", "y", "z",
     "A", "B", "C", "D", "E", "F", "G", "H", "I", "J", "K", "L", "M",
     "N", "O", "P", "Q", "R", "S", "T", "U", "V", "W", "X", "Y", "Z",
     "0", "1", "2", "3", "4", "5", "6", "7", "8", "9"}

\* s.replace(/[^a-zA-Z0-9]/g, '-')
Slug(s) == [i \in 1..Len(s) |-> IF s[i] \in AlNum THEN s[i] ELSE "-"]

(***************************************************************************)
(* URLs: <<"https://">> \o hostname \o pathname \o search                  *)
(***************************************************************************)
Scheme == "https://"

IsAbsoluteUrl(ref) == Len(ref) > 0 /\ ref[1] = Scheme

\* new URL(u).hostname
Hostname(u) ==
    LET i == FirstAt(u, 2, "/")
        q == FirstAt(u, 2, "?")
    IN  SubSeq(u, 2, (IF i < q THEN i ELSE q) - 1)

\* new URL(u).pathname ("/" for an empty path): up to the "?" of the search part
Pathname(u) ==
    LET i == FirstAt(u, 2, "/")
    IN  IF i > Len(u) THEN <<"/">> ELSE SubSeq(u, i, FirstAt(u, i, "?") - 1)

\* new URL(u).search
Search(u) == SubSeq(u, FirstAt(u, 2, "?"), Len(u))

\* new URL(u).href
Href(u) == <<Scheme>> \o Hostname(u) \o Pathname(u) \o Search(u)

\* new URL(ref, baseUrl).href
ResolveUrl(ref, base) ==
    IF IsAbsoluteUrl(ref) THEN Href(ref)
    ELSE IF ref[1] = "/" THEN <<Scheme>> \o Hostname(base) \o ref
    ELSE LET bp == Pathname(base)
         IN  <<Scheme>> \o Hostname(base) \o SubSeq(bp, 1, LastIndexOf(bp, "/")) \o ref

(***************************************************************************)
(* URL normalizer                                                          *)
(***************************************************************************)
\* mutant: every trailing slash is stripped, not only one
StripTrailingSlashes(s) ==
    LET NonSlash == {j \in 1..Len(s) : s[j] # "/"}
    IN  SubSeq(s, 1, IF NonSlash = {} THEN 0 ELSE CHOOSE j \in NonSlash : \A k \in NonSlash : j >= k)

\* `${hostname}${pathname}`.replace(/\/$/, '')
StripTrailingSlash(s) ==
    IF Len(s) > 0 /\ s[Len(s)] = "/" THEN SubSeq(s, 1, Len(s) - 1) ELSE s

\* mutant: the name carries one more '-' for every call made before
generateFilenameNumbered(u) ==
    Slug(StripTrailingSlash(Hostname(u) \o Pathname(u))) \o [i \in 1..Len(calls) |-> "-"]
        \o <<".", "h", "t", "m", "l">>

generateFilename(u) ==
    Slug(StripTrailingSlash(Hostname(u) \o Pathname(u))) \o <<".", "h", "t", "m", "l">>

generateResourceDirName(u) ==
    Slug(StripTrailingSlash(Hostname(u) \o Pathname(u))) \o <<"_", "f", "i", "l", "e", "s">>

\* node:path extname: from the last "." of the last path segment; empty when
\* the segment has no "." or only a leading one (trailing slashes are ignored)
extname(path) ==
    LET NonSlash == {j \in 1..Len(path) : path[j] # "/"}
        end      == IF NonSlash = {} THEN 0 ELSE CHOOSE j \in NonSlash : \A k \in NonSlash : j >= k
        p        == SubSeq(path, 1, end)
        start    == LastIndexOf(p, "/") + 1
        base     == SubSeq(p, start, end)
        d        == LastIndexOf(base, ".")
    IN  IF d <= 1 \/ base = <<".", ".">> THEN <<>> ELSE SubSeq(base, d, Len(base))

generateResourceFileName(resourceUrl) ==
    LET ext0                 == extname(Pathname(resourceUrl))
        fileExtension        == IF ext0 = <<>> THEN <<".", "h", "t", "m", "l">> ELSE ext0
        pathWithoutExtension == ReplaceFirst(Pathname(resourceUrl), fileExtension, <<>>)
        cleanPath            == Slug(Hostname(resourceUrl) \o pathWithoutExtension)
    IN  cleanPath \o fileExtension

\* mutant: the protocols are compared in place of the hostnames
isLocalResourceByProtocol(resourceUrl, pageUrl) == resourceUrl[1] = pageUrl[1]

isLocalResource(resourceUrl, pageUrl) == Hostname(resourceUrl) = Hostname(pageUrl)

(***************************************************************************)
(* Paths                                                                   *)
(***************************************************************************)
\* process.cwd()
Cwd == <<"/", "w">>

IsAbsolutePath(p) == Len(p) > 0 /\ p[1] = "/"

\* node:path join(a, b)
join(a, b) == a \o <<"/">> \o b

\* node:path resolve(a, b): absolute, relative segments resolved against cwd
resolve(a, b) == IF IsAbsolutePath(a) THEN join(a, b) ELSE join(join(Cwd, a), b)

\* the location on disk a path handed to node:fs denotes
OnDisk(p) == IF IsAbsolutePath(p) THEN p ELSE join(Cwd, p)

(***************************************************************************)
(* HTML: what cheerio.load(html) and the four selectors find               *)
(***************************************************************************)
Q == "\""

\* tag openers; HTML tag names are case-insensitive for the parser
TagOpeners == {"<img", "<IMG", "<link", "<script"}

TagName(a) ==
    CASE a \in {"<img", "<IMG"} -> "img"
      [] a = "<link"             -> "link"
      [] a = "<script"           -> "script"

\* the elements of the document, in document order: comments are skipped,
\* a tag runs to its ">", the text of a script element is not markup
RECURSIVE ParseFrom(_, _)
ParseFrom(s, i) ==
    IF i > Len(s) THEN <<>>
    ELSE IF s[i] = "<!--" THEN ParseFrom(s, FirstAt(s, i, "-->") + 1)
    ELSE IF s[i] \in TagOpeners THEN
        LET j  == FirstAt(s, i, ">")
            el == [tag |-> TagName(s[i]), attrs |-> SubSeq(s, i + 1, j - 1)]
        IN  <<el>> \o ParseFrom(s, IF el.tag = "script"
                                     THEN FirstAt(s, j, "</script>") + 1
                                     ELSE j + 1)
    ELSE ParseFrom(s, i + 1)

\* cheerio.load(html)
CheerioLoad(doc) == ParseFrom(doc, 1)

\* $(el).attr(name): the value of the first attribute name="...", <<>> when absent
Attr(el, name) ==
    LET a == el.attrs
        I == {k \in 1..(Len(a) - 1) : a[k] = name /\ a[k + 1] = Q}
    IN  IF I = {} THEN <<>>
        ELSE LET k == CHOOSE x \in I : \A y \in I : x <= y
             IN  SubSeq(a, k + 2, FirstAt(a, k + 2, Q) - 1)

HasAttr(el, name) == \E k \in 1..Len(el.attrs) : el.attrs[k] = name

Kinds == <<"img", "css", "js", "canonical">>

\* $('img'), $('link[rel="stylesheet"]'), $('script[src]'), $('link[rel="canonical"]')
Selected(el, kind) ==
    CASE kind = "img"       -> el.tag = "img"
      [] kind = "css"       -> el.tag = "link" /\ Attr(el, "rel=") = <<"stylesheet">>
      [] kind = "js"        -> el.tag = "script" /\ HasAttr(el, "src=")
      [] kind = "canonical" -> el.tag = "link" /\ Attr(el, "rel=") = <<"canonical">>

\* the attribute that carries the reference: src for img and script, href for link
RefOf(el, kind) == IF kind \in {"img", "js"} THEN Attr(el, "src=") ELSE Attr(el, "href=")

\* the promises one stage of processAllResources creates: one per selected element
\* whose reference is non-empty and resolves to the page's host
StageAssets(doc, pageUrl, kind) ==
    LET els  == SelectSeq(CheerioLoad(doc), LAMBDA el : Selected(el, kind))
        refs == [i \in 1..Len(els) |-> RefOf(els[i], kind)]
        keep == SelectSeq(refs, LAMBDA r : r # <<>> /\ isLocalResource(ResolveUrl(r, pageUrl), pageUrl))
    IN  [i \in 1..Len(keep) |-> [kind |-> kind, ref |-> keep[i], url |-> ResolveUrl(keep[i], pageUrl)]]

\* mutant: any markup at all passes the pre-check
hasResourcesAnyTag(doc) == \E i \in 1..Len(doc) : doc[i] \notin AlNum

\* html.includes('<img') || html.includes('<link') || html.includes('<script')
hasResources(doc) ==
    Includes(doc, <<"<img">>) \/ Includes(doc, <<"<link">>) \/ Includes(doc, <<"<script">>)

(***************************************************************************)
(* Served documents: up to MaxElems fragments in any order                 *)
(***************************************************************************)
PngA  == <<"/", "a", ".", "p", "n", "g">>
CssS  == <<"/", "s", ".", "c", "s", "s">>
JsJ   == <<"/", "j", ".", "j", "s">>
HostH == <<"h">>
HostE == <<"e">>
PageUrls == {<<Scheme>> \o HostH \o <<"/", "p">>}

Fragments ==
    << <<"<img", " ", "src=", Q>> \o PngA \o <<Q, ">">>,
       <<"<img", " ", "src=", Q>> \o SubSeq(PngA, 2, Len(PngA)) \o <<Q, ">">>,
       <<"<img", " ", "src=", Q, Scheme>> \o HostE \o PngA \o <<Q, ">">>,
       <<"<img", " ", "alt=", Q, "x", Q, ">">>,
       <<"<IMG", " ", "src=", Q>> \o PngA \o <<Q, ">">>,
       <<"<img", " ", "src=", Q>> \o PngA \o <<"?", "1", Q, ">">>,
       <<"<link", " ", "rel=", Q, "stylesheet", Q, " ", "href=", Q>> \o CssS \o <<Q, " ", "/", ">">>,
       <<"<link", " ", "rel=", Q, "stylesheet", Q, " ", "href=", Q>> \o CssS \o <<Q, ">">>,
       <<"<link", " ", "rel=", Q, "stylesheet", Q, " ", "href=", Q, Scheme>> \o HostE \o CssS \o <<Q, " ", "/", ">">>,
       <<"<script", " ", "src=", Q>> \o JsJ \o <<Q, ">", "</script>">>,
       <<"<link", " ", "rel=", Q, "canonical", Q, " ", "href=", Q, Scheme>> \o HostH \o <<"/", "p", Q, ">">>,
       <<"<!--", " ">> \o PngA \o <<" ", "-->">>,
       <<"<p>", "t", "</p>">> >>

RECURSIVE Concat(_)
Concat(ss) == IF ss = <<>> THEN <<>> ELSE Head(ss) \o Concat(Tail(ss))

Docs ==
    {Concat([i \in 1..Len(f) |-> Fragments[f[i]]]) :
        f \in UNION {[1..n -> 1..Len(Fragments)] : n \in 0..MaxElems}}

(***************************************************************************)
(* The environment: transport failures, file-system failures, payloads     *)
(***************************************************************************)
\* what axios rejects with: error.response?.status (0: no response),
\* error.code and error.message
Failures ==
    { [status |-> 404, code |-> "ERR_BAD_REQUEST",  message |-> "Request failed with status code 404"],
      [status |-> 403, code |-> "ERR_BAD_REQUEST",  message |-> "Request failed with status code 403"],
      [status |-> 400, code |-> "ERR_BAD_REQUEST",  message |-> "Request failed with status code 400"],
      [status |-> 500, code |-> "ERR_BAD_RESPONSE", message |-> "Request failed with status code 500"],
      [status |-> 503, code |-> "ERR_BAD_RESPONSE", message |-> "Request failed with status code 503"],
      [status |-> 0,   code |-> "ENOTFOUND",        message |-> "getaddrinfo ENOTFOUND"],
      [status |-> 0,   code |-> "ECONNREFUSED",     message |-> "connect ECONNREFUSED"],
      [status |-> 0,   code |-> "ETIMEDOUT",        message |-> "connect ETIMEDOUT"],
      [status |-> 0,   code |-> "ECONNABORTED",     message |-> "timeout of 30000ms exceeded"] }

\* what node:fs rejects with: error.code and error.message
FsFailures ==
    { [code |-> "ENOENT", message |-> "ENOENT: no such file or directory"],
      [code |-> "EACCES", message |-> "EACCES: permission denied"],
      [code |-> "ENOSPC", message |-> "ENOSPC: no space left on device"],
      [code |-> "EROFS",  message |-> "EROFS: read-only file system"] }

\* the body the server sends for a URL: bytes, the first of which is not valid
\* UTF-8; bodies of URLs of different lengths have different lengths
Body(u) == <<"0xFF", "body of ">> \o u \o <<"end of body">>

\* the text axios hands over for a response read without responseType
\* 'arraybuffer': the bytes decoded as UTF-8, an invalid byte giving U+FFFD
Utf8Decode(bytes) == [i \in 1..Len(bytes) |-> IF bytes[i] = "0xFF" THEN "U+FFFD" ELSE bytes[i]]

\* the bytes writeFile stores for a string: U+FFFD is encoded as EF BF BD
RECURSIVE Utf8Encode(_)
Utf8Encode(text) ==
    IF text = <<>> THEN <<>>
    ELSE (IF Head(text) = "U+FFFD" THEN <<"0xEF", "0xBF", "0xBD">> ELSE <<Head(text)>>)
             \o Utf8Encode(Tail(text))

\* response.data of downloadImage (a buffer) and of downloadTextResource (a string)
ResponseData(kind, u) == IF kind = "img" THEN Body(u) ELSE Utf8Decode(Body(u))

\* what writeFile(path, data) puts on disk for that data
Stored(kind, u) == IF kind = "img" THEN ResponseData(kind, u) ELSE Utf8Encode(ResponseData(kind, u))

\* the failures resource requests are answered with: one per branch of the
\* catch blocks of downloadImage and downloadTextResource
ResourceFailures == {f \in Failures : f.status \in {404, 403, 500} \/ f.code = "ENOTFOUND"}

\* output directories: absolute and relative ones that exist, and one that does not
OutputDirs  == {<<"/", "o">>, <<"o">>, <<"/", "m">>}
MissingDirs == {<<"/", "m">>}

None == "none"

\* new Error(`${text}: ${subject}`), with ` - ${cause}` or `(${status})` where the code adds them
Err(text, status, subject, cause) ==
    [text |-> text, status |-> status, subject |-> subject, cause |-> cause]

\* mutant: the page request maps its failures as downloadImage does, without
\* the branches for 403, ECONNREFUSED and ETIMEDOUT
PageErrorAsResource(f, u) ==
    IF f.status = 404 THEN Err("Page not found (404)", 0, u, None)
    ELSE IF f.status >= 500 THEN Err("Server error", f.status, u, None)
    ELSE IF f.code = "ENOTFOUND" THEN Err("Cannot resolve hostname", 0, u, None)
    ELSE Err("Network error", 0, u, f.message)

\* load, catch of the page request
PageError(f, u) ==
    IF f.status = 404 THEN Err("Page not found (404)", 0, u, None)
    ELSE IF f.status = 403 THEN Err("Access forbidden (403)", 0, u, None)
    ELSE IF f.status >= 500 THEN Err("Server error", f.status, u, None)
    ELSE IF f.code = "ENOTFOUND" THEN Err("Cannot resolve hostname", 0, u, None)
    ELSE IF f.code = "ECONNREFUSED" THEN Err("Connection refused", 0, u, None)
    ELSE IF f.code = "ETIMEDOUT" THEN Err("Request timeout", 0, u, None)
    ELSE Err("Network error", 0, u, f.message)

\* downloadImage, catch
downloadImageError(f, u) ==
    IF f.status = 404 THEN Err("Image not found (404)", 0, u, None)
    ELSE IF f.status >= 500 THEN Err("Server error", f.status, u, None)
    ELSE IF f.code = "ENOTFOUND" THEN Err("Cannot resolve hostname for image", 0, u, None)
    ELSE Err("Failed to download image", 0, u, f.message)

\* downloadTextResource, catch
downloadTextResourceError(f, u) ==
    IF f.status = 404 THEN Err("Resource not found (404)", 0, u, None)
    ELSE IF f.status >= 500 THEN Err("Server error", f.status, u, None)
    ELSE IF f.code = "ENOTFOUND" THEN Err("Cannot resolve hostname for resource", 0, u, None)
    ELSE Err("Failed to download resource", 0, u, f.message)

\* images go through downloadImage, the three other kinds through downloadTextResource
DownloadError(kind, f, u) ==
    IF kind = "img" THEN downloadImageError(f, u) ELSE downloadTextResourceError(f, u)

\* processAllResources, catch of mkdir
MkdirError(e, dir) ==
    IF e.code = "EACCES" THEN Err("Permission denied: Cannot create directory", 0, dir, None)
    ELSE IF e.code = "ENOSPC" THEN Err("No space left on device: Cannot create directory", 0, dir, None)
    ELSE Err("Failed to create directory", 0, dir, e.message)

\* the writeFile of a resource is not wrapped: the node:fs error itself propagates
\* (its message names the system call, not the URL or the path)
ResourceWriteError(e, path) == Err(e.message, 0, <<>>, None)

\* load, catch of the page writeFile
SaveError(e, dir, filepath) ==
    IF e.code = "ENOENT" THEN Err("Directory not found", 0, dir, None)
    ELSE IF e.code = "EACCES" THEN Err("Permission denied: Cannot write to", 0, filepath, None)
    ELSE IF e.code = "ENOSPC" THEN Err("No space left on device", 0, filepath, None)
    ELSE Err("File system error", 0, <<>>, e.message)

(***************************************************************************)
(* State                                                                   *)
(***************************************************************************)
NoResponse == [status |-> 0, code |-> "", message |-> ""]
Ok200      == [status |-> 200, code |-> "", message |-> ""]
NoError    == Err("", 0, <<>>, None)
Pending    == [state |-> "pending", value |-> <<>>, error |-> NoError]
Returned(path) == [state |-> "returned", value |-> path, error |-> NoError]
Thrown(e)      == [state |-> "thrown", value |-> <<>>, error |-> e]

\* no second invocation of load has been made
NoOther == [pc |-> "idle", url |-> <<>>]

\* mutant: the page path is joined, not resolved
filepathJoined == join(outputDir, generateFilename(url))

resourceDirName == generateResourceDirName(url)
resourceDir     == join(outputDir, resourceDirName)
filepath        == resolve(outputDir, generateFilename(url))

\* the promise of one qualifying asset, just created: its request is in flight
\* (late records that its file was written after load had rejected)
NewTask(a) == [kind |-> a.kind, ref |-> a.ref, url |-> a.url, st |-> "fetching",
               resp |-> NoResponse, err |-> NoError, late |-> FALSE]

\* mutant: every resource is written under the name of its page
TaskFileByPageName(t) == join(resourceDir, generateFilename(url))

\* the path a task writes and the reference it hands back
TaskFile(t)   == join(resourceDir, generateResourceFileName(t.url))
TaskNewRef(t) == join(resourceDirName, generateResourceFileName(t.url))

WriteFile(fs, path, content) ==
    [q \in DOMAIN fs \cup {OnDisk(path)} |-> IF q = OnDisk(path) THEN content ELSE fs[q]]

\* the file after `content` is written at offset 0 of a file holding `old`
Overlay(old, content) == content \o SubSeq(old, Len(content) + 1, Len(old))

Init ==
    /\ pc = "idle"
    /\ url = <<>>
    /\ outputDir = <<>>
    /\ html = <<>>
    /\ modifiedHtml = <<>>
    /\ tasks = <<>>
    /\ requests = <<>>
    /\ pageResp = NoResponse
    /\ dirs = {Cwd} \cup {OnDisk(d) : d \in OutputDirs \ MissingDirs}
    /\ files = <<>>
    /\ result = Pending
    /\ calls = <<>>
    /\ other = NoOther

(***************************************************************************)
(* processAllResources: the four stages                                    *)
(***************************************************************************)
\* mutant: a stylesheet reference is replaced like the references of the other kinds
ApplyOnePlain(doc, t) == ReplaceFirst(doc, t.ref, TaskNewRef(t))

\* one replacement of a stage's loop over its results
ApplyOne(doc, t) ==
    IF t.kind = "css"
    THEN ReplaceFirst(doc, <<"href=", Q>> \o t.ref \o <<Q, " ", "/", ">">>,
                           <<"href=", Q>> \o TaskNewRef(t) \o <<Q, ">">>)
    ELSE ReplaceFirst(doc, t.ref, TaskNewRef(t))

\* for (const r of results) modifiedHtml = modifiedHtml.replace(...), in promise order
RECURSIVE ApplyAll(_, _)
ApplyAll(doc, ts) == IF ts = <<>> THEN doc ELSE ApplyAll(ApplyOne(doc, Head(ts)), Tail(ts))

\* the first stage from k on that creates a promise; Len(Kinds)+1 when none does
\* (a stage without promises awaits nothing and replaces nothing)
NextStage(k) ==
    LET S == {j \in k..Len(Kinds) : StageAssets(html, url, Kinds[j]) # <<>>}
    IN  IF S = {} THEN Len(Kinds) + 1 ELSE CHOOSE j \in S : \A i \in S : j <= i

\* run on from stage k with the promises ts made so far: create the promises of
\* the next stage that has any and await them, or return to load, which saves
RunFrom(k, ts) ==
    LET j == NextStage(k)
    IN  IF j > Len(Kinds)
        THEN /\ pc' = "save"
             /\ tasks' = ts
             /\ requests' = requests
        ELSE LET as == StageAssets(html, url, Kinds[j])
             IN  /\ pc' = Kinds[j]
                 /\ tasks' = ts \o [i \in 1..Len(as) |-> NewTask(as[i])]
                 /\ requests' = requests \o [i \in 1..Len(as) |-> as[i].url]

StageIndex(kind) == CHOOSE j \in 1..Len(Kinds) : Kinds[j] = kind

\* Promise.all of the awaited stage: fulfilled once every promise of it is
AllFulfilled(ts, kind) == \A i \in 1..Len(ts) : ts[i].kind = kind => ts[i].st = "done"

(***************************************************************************)
(* Actions                                                                 *)
(***************************************************************************)
\* load(url, outputDir) up to its first await: the page request is issued
Load ==
    /\ pc = "idle"
    /\ \E u \in PageUrls, dir \in OutputDirs :
        /\ url' = u
        /\ outputDir' = dir
        /\ requests' = <<u>>
    /\ pc' = "page"
    /\ UNCHANGED <<html, modifiedHtml, tasks, pageResp, dirs, files, result, calls, other>>

\* the page request fails: load throws the mapped error
PageFetchFails ==
    /\ pc = "page"
    /\ \E f \in Failures :
        /\ pageResp' = f
        /\ result' = Thrown(PageError(f, url))
    /\ pc' = "failed"
    /\ UNCHANGED <<url, outputDir, html, modifiedHtml, tasks, requests, dirs, files, calls, other>>

\* the page arrives without candidate tags: load goes straight to saving it
PageFetchedPlain ==
    /\ pc = "page"
    /\ \E doc \in Docs :
        /\ ~hasResources(doc)
        /\ html' = doc
        /\ modifiedHtml' = doc
    /\ pageResp' = Ok200
    /\ pc' = "save"
    /\ UNCHANGED <<url, outputDir, tasks, requests, dirs, files, result, calls, other>>

\* the page arrives with candidate tags: processAllResources starts with mkdir
PageFetchedWithTags ==
    /\ pc = "page"
    /\ \E doc \in Docs :
        /\ hasResources(doc)
        /\ html' = doc
    /\ pageResp' = Ok200
    /\ pc' = "mkdir"
    /\ UNCHANGED <<url, outputDir, modifiedHtml, tasks, requests, dirs, files, result,
                   calls, other>>

\* mkdir(resourceDir, {recursive: true}) succeeds, missing parents included; the
\* document is parsed and the first stage that has promises is started
MkdirDone ==
    /\ pc = "mkdir"
    /\ dirs' = dirs \cup {OnDisk(outputDir), OnDisk(resourceDir)}
    /\ modifiedHtml' = html
    /\ RunFrom(1, tasks)
    /\ UNCHANGED <<url, outputDir, html, pageResp, files, result, calls, other>>

\* mkdir fails (with recursive: true a missing parent is no failure)
MkdirFails ==
    /\ pc = "mkdir"
    /\ \E e \in FsFailures :
        /\ e.code # "ENOENT"
        /\ result' = Thrown(MkdirError(e, resourceDir))
    /\ pc' = "failed"
    /\ UNCHANGED <<url, outputDir, html, modifiedHtml, tasks, requests, pageResp, dirs, files,
                   calls, other>>

\* load is still awaiting the stage of task i
Awaited(i) == pc = tasks[i].kind

\* mutant: the rejection is swallowed and load goes on to save the page
RejectSwallowed(i, e, f) ==
    /\ tasks' = [tasks EXCEPT ![i].st = "failed", ![i].err = e, ![i].resp = f]
    /\ IF Awaited(i)
       THEN pc' = "save" /\ UNCHANGED result
       ELSE UNCHANGED <<pc, result>>
    /\ UNCHANGED <<url, outputDir, html, modifiedHtml, requests, pageResp, dirs, files,
                   calls, other>>

\* mutant: the stage is awaited with Promise.allSettled: load rejects only once
\* every promise of the stage has settled, with the first rejection in document order
RejectWhenSettled(i, e, f) ==
    LET ts      == [tasks EXCEPT ![i].st = "failed", ![i].err = e, ![i].resp = f]
        settled == \A j \in 1..Len(ts) : ts[j].st \in {"done", "failed"}
        first   == CHOOSE j \in 1..Len(ts) :
                       ts[j].st = "failed" /\ \A k \in 1..(j - 1) : ts[k].st # "failed"
    IN  /\ tasks' = ts
        /\ IF Awaited(i) /\ settled
           THEN pc' = "failed" /\ result' = Thrown(ts[first].err)
           ELSE UNCHANGED <<pc, result>>
        /\ UNCHANGED <<url, outputDir, html, modifiedHtml, requests, pageResp, dirs, files,
                       calls, other>>

\* mutant: a rejected stage removes the resource files whose write has completed
RejectWithCleanup(i, e, f) ==
    /\ tasks' = [tasks EXCEPT ![i].st = "failed", ![i].err = e, ![i].resp = f]
    /\ IF Awaited(i)
       THEN /\ pc' = "failed"
            /\ result' = Thrown(e)
            /\ LET open == {OnDisk(TaskFile(tasks[j])) : j \in {k \in 1..Len(tasks) : tasks[k].st = "writing"}}
                    kept == {q \in DOMAIN files : q \in open}
               IN  files' = IF kept = {} THEN <<>> ELSE [q \in kept |-> files[q]]
       ELSE UNCHANGED <<pc, result, files>>
    /\ UNCHANGED <<url, outputDir, html, modifiedHtml, requests, pageResp, dirs, calls, other>>

\* mutant: the rejection that fails load aborts the sibling promises still in flight
RejectCancelling(i, e, f) ==
    /\ IF Awaited(i)
       THEN /\ pc' = "failed"
            /\ result' = Thrown(e)
            /\ tasks' = [j \in 1..Len(tasks) |->
                            IF j = i
                            THEN [tasks[j] EXCEPT !.st = "failed", !.err = e, !.resp = f]
                            ELSE IF tasks[j].st = "fetching"
                            THEN [tasks[j] EXCEPT !.st = "failed"]
                            ELSE tasks[j]]
       ELSE /\ tasks' = [tasks EXCEPT ![i].st = "failed", ![i].err = e, ![i].resp = f]
            /\ UNCHANGED <<pc, result>>
    /\ UNCHANGED <<url, outputDir, html, modifiedHtml, requests, pageResp, dirs, files,
                   calls, other>>

\* mutant: a failed request is issued once more before its promise rejects
RejectAfterRetry(i, e, f) ==
    /\ tasks' = [tasks EXCEPT ![i].st = "failed", ![i].err = e, ![i].resp = f]
    /\ requests' = Append(requests, tasks[i].url)
    /\ IF Awaited(i)
       THEN pc' = "failed" /\ result' = Thrown(e)
       ELSE UNCHANGED <<pc, result>>
    /\ UNCHANGED <<url, outputDir, html, modifiedHtml, pageResp, dirs, files, calls, other>>

\* a promise rejects: Promise.all rejects with it if load still awaits the stage
Reject(i, e, f) ==
    /\ tasks' = [tasks EXCEPT ![i].st = "failed", ![i].err = e, ![i].resp = f]
    /\ IF Awaited(i)
       THEN pc' = "failed" /\ result' = Thrown(e)
       ELSE UNCHANGED <<pc, result>>
    /\ UNCHANGED <<url, outputDir, html, modifiedHtml, requests, pageResp, dirs, files,
                   calls, other>>

\* the response of a resource request arrives: writeFile is called and opens the file
ResourceFetched ==
    \E i \in 1..Len(tasks) :
        /\ tasks[i].st = "fetching"
        /\ tasks' = [tasks EXCEPT ![i].st = "opening", ![i].resp = Ok200]
        /\ UNCHANGED <<pc, url, outputDir, html, modifiedHtml, requests, pageResp, dirs, files, result,
                       calls, other>>

\* writeFile has opened its file with flag 'w': the file is created, or truncated
ResourceOpened ==
    \E i \in 1..Len(tasks) :
        /\ tasks[i].st = "opening"
        /\ tasks' = [tasks EXCEPT ![i].st = "writing"]
        /\ files' = WriteFile(files, TaskFile(tasks[i]), <<>>)
        /\ UNCHANGED <<pc, url, outputDir, html, modifiedHtml, requests, pageResp, dirs, result,
                       calls, other>>

\* a resource request fails: the promise rejects with the mapped error
ResourceFetchFails ==
    \E i \in 1..Len(tasks) :
        /\ tasks[i].st = "fetching"
        /\ \E f \in ResourceFailures : Reject(i, DownloadError(tasks[i].kind, f, tasks[i].url), f)

\* writeFile has written its data from offset 0 of the file it opened and
\* closed it; when it was the last promise of the awaited stage, the stage's
\* replacements are applied and the next stage runs
ResourceWritten ==
    \E i \in 1..Len(tasks) :
        /\ tasks[i].st = "writing"
        /\ files' = WriteFile(files, TaskFile(tasks[i]),
                              Overlay(files[OnDisk(TaskFile(tasks[i]))],
                                      Stored(tasks[i].kind, tasks[i].url)))
        /\ LET ts == [tasks EXCEPT ![i].st = "done", ![i].late = (pc = "failed")]
               k  == tasks[i].kind
           IN  IF Awaited(i) /\ AllFulfilled(ts, k)
               THEN /\ modifiedHtml' = ApplyAll(modifiedHtml, SelectSeq(ts, LAMBDA t : t.kind = k))
                    /\ RunFrom(StageIndex(k) + 1, ts)
               ELSE /\ tasks' = ts
                    /\ UNCHANGED <<pc, modifiedHtml, requests>>
        /\ UNCHANGED <<url, outputDir, html, pageResp, dirs, result, calls, other>>

\* the writeFile of a resource fails (the disk is full): the promise rejects
\* with the node:fs error
ResourceWriteFails ==
    \E i \in 1..Len(tasks) :
        /\ tasks[i].st = "writing"
        /\ \E e \in FsFailures :
            /\ e.code = "ENOSPC"
            /\ Reject(i, ResourceWriteError(e, TaskFile(tasks[i])), Ok200)

\* writeFile(filepath, processedHtml) completes and load returns filepath
PageSaved ==
    /\ pc = "save"
    /\ OnDisk(outputDir) \in dirs
    /\ files' = WriteFile(files, filepath, modifiedHtml)
    /\ pc' = "done"
    /\ result' = Returned(filepath)
    /\ UNCHANGED <<url, outputDir, html, modifiedHtml, tasks, requests, pageResp, dirs,
                   calls, other>>

\* writeFile of the page fails: ENOENT exactly when the output directory is missing
PageSaveFails ==
    /\ pc = "save"
    /\ \E e \in FsFailures :
        /\ (e.code = "ENOENT") <=> (OnDisk(outputDir) \notin dirs)
        /\ result' = Thrown(SaveError(e, outputDir, filepath))
    /\ pc' = "failed"
    /\ UNCHANGED <<url, outputDir, html, modifiedHtml, tasks, requests, pageResp, dirs, files,
                   calls, other>>

Next ==
    \/ Load
    \/ PageFetchFails
    \/ PageFetchedPlain
    \/ PageFetchedWithTags
    \/ MkdirDone
    \/ MkdirFails
    \/ ResourceFetched
    \/ ResourceOpened
    \/ ResourceFetchFails
    \/ ResourceWritten
    \/ ResourceWriteFails
    \/ PageSaved
    \/ PageSaveFails

Spec == Init /\ [][Next]_vars

(***************************************************************************)
(* A second invocation of load() on the same output directory, for another *)
(* page URL, running while the first one runs.  Its page is                *)
(* <img src="/a.png"> and every request of it is answered 200; it is       *)
(* followed through its effects on the file system the two calls share.    *)
(***************************************************************************)
\* the page URLs of the second invocation: one with names of its own, and one
\* that differs from https://h/p only by a trailing slash
OtherUrls == {<<Scheme>> \o HostH \o <<"/", "q">>, <<Scheme>> \o HostH \o <<"/", "p", "/">>}

OtherHtml == <<"<img", " ", "src=", Q>> \o PngA \o <<Q, ">">>

OtherResourceUrl == ResolveUrl(PngA, other.url)

OtherResourceDir == join(outputDir, generateResourceDirName(other.url))

\* mutant: the path of the page file is kept in a variable the invocations share
OtherFilepathShared == filepath

OtherFilepath == resolve(outputDir, generateFilename(other.url))

\* load(url2, outputDir) is called while the first call runs; its page arrives
\* and, holding '<img', makes it call mkdir
OtherLoad ==
    /\ other.pc = "idle"
    /\ pc \notin {"idle", "done", "failed"}
    /\ \E u \in OtherUrls : other' = [pc |-> "mkdir", url |-> u]
    /\ UNCHANGED <<pc, url, outputDir, html, modifiedHtml, tasks, requests, pageResp, dirs, files,
                   result, calls>>

\* its mkdir(resourceDir, {recursive: true}) completes and the image is requested
OtherMkdirDone ==
    /\ other.pc = "mkdir"
    /\ dirs' = dirs \cup {OnDisk(outputDir), OnDisk(OtherResourceDir)}
    /\ other' = [other EXCEPT !.pc = "img"]
    /\ UNCHANGED <<pc, url, outputDir, html, modifiedHtml, tasks, requests, pageResp, files,
                   result, calls>>

\* its image has arrived and is written; the reference is replaced
OtherResourceWritten ==
    /\ other.pc = "img"
    /\ files' = WriteFile(files, join(OtherResourceDir, generateResourceFileName(OtherResourceUrl)),
                          Stored("img", OtherResourceUrl))
    /\ other' = [other EXCEPT !.pc = "save"]
    /\ UNCHANGED <<pc, url, outputDir, html, modifiedHtml, tasks, requests, pageResp, dirs,
                   result, calls>>

\* its writeFile(filepath, processedHtml) completes and it returns
OtherPageSaved ==
    /\ other.pc = "save"
    /\ files' = WriteFile(files, OtherFilepath,
                          ReplaceFirst(OtherHtml, PngA,
                                       join(generateResourceDirName(other.url),
                                            generateResourceFileName(OtherResourceUrl))))
    /\ other' = [other EXCEPT !.pc = "done"]
    /\ UNCHANGED <<pc, url, outputDir, html, modifiedHtml, tasks, requests, pageResp, dirs,
                   result, calls>>

TwoLoadsNext ==
    \/ Load
    \/ PageFetchFails
    \/ PageFetchedPlain
    \/ PageFetchedWithTags
    \/ MkdirDone
    \/ MkdirFails
    \/ ResourceFetched
    \/ ResourceOpened
    \/ ResourceFetchFails
    \/ ResourceWritten
    \/ ResourceWriteFails
    \/ PageSaved
    \/ PageSaveFails
    \/ OtherLoad
    \/ OtherMkdirDone
    \/ OtherResourceWritten
    \/ OtherPageSaved

TwoLoads == Init /\ [][TwoLoadsNext]_vars

(***************************************************************************)
(* The URL normalizer called on its own                                    *)
(***************************************************************************)
\* Number of calls of the normalizer in one run.
MaxCalls == 3

\* the URLs the normalizer is called with: dots in the host, trailing
\* slashes, no path, an extension, the extension text earlier in the path,
\* other punctuation and a search part, no extension, a leading dot
NormUrls ==
    { <<Scheme, "r", "u", ".", "h", "e", "x", "l", "e", "t", ".", "i", "o", "/", "c", "o", "u", "r", "s", "e", "s">>,
      <<Scheme, "h", "/", "p", "/">>,
      <<Scheme, "h">>,
      <<Scheme, "h", "/", "p", "/", "/">>,
      <<Scheme, "h", "/", "a", ".", "p", "n", "g">>,
      <<Scheme, "h", "/", "a", ".", "j", "/", "b", ".", "j">>,
      <<Scheme, "h", "/", "a", "_", "b", "/", "c", "-", "d", ".", "c", "s", "s", "?", "v">>,
      <<Scheme, "h", "/", "a", ".", "h", "t", "m", "l", "/", "b">>,
      <<Scheme, "h", "/", ".", "x">> }

\* one call fn(u): the value is appended to the calls made so far
Call(fn, u, value) ==
    /\ calls' = Append(calls, [fn |-> fn, arg |-> u, value |-> value])
    /\ UNCHANGED <<pc, url, outputDir, html, modifiedHtml, tasks, requests, pageResp, dirs, files,
                   result, other>>

CallGenerateFilename ==
    /\ Len(calls) < MaxCalls
    /\ \E u \in NormUrls : Call("generateFilename", u, generateFilename(u))

CallGenerateResourceDirName ==
    /\ Len(calls) < MaxCalls
    /\ \E u \in NormUrls : Call("generateResourceDirName", u, generateResourceDirName(u))

CallGenerateResourceFileName ==
    /\ Len(calls) < MaxCalls
    /\ \E u \in NormUrls : Call("generateResourceFileName", u, generateResourceFileName(u))

\* the substitution /[^a-zA-Z0-9]/g -> '-' applied once more, to the
\* substituted string of an earlier call (its value without the suffix)
CallSubstituteAgain ==
    /\ Len(calls) < MaxCalls
    /\ \E k \in 1..Len(calls) :
        /\ calls[k].fn # "substitute"
        /\ LET v    == calls[k].value
               stem == IF calls[k].fn = "generateFilename" THEN SubSeq(v, 1, Len(v) - 5)
                       ELSE IF calls[k].fn = "generateResourceDirName" THEN SubSeq(v, 1, Len(v) - 6)
                       ELSE SubSeq(v, 1, LastIndexOf(v, ".") - 1)
           IN  Call("substitute", stem, Slug(stem))

NormNext ==
    \/ CallGenerateFilename
    \/ CallGenerateResourceDirName
    \/ CallGenerateResourceFileName
    \/ CallSubstituteAgain

NormSpec == Init /\ [][NormNext]_vars

(***************************************************************************)
(* Properties                                                              *)
(***************************************************************************)
InitialDirs == {Cwd} \cup {OnDisk(d) : d \in OutputDirs \ MissingDirs}

PageFetched == pageResp = Ok200

\* the qualifying (same-host) assets of the fetched page, stage by stage
QualifyingAssets ==
    StageAssets(html, url, "img") \o StageAssets(html, url, "css")
        \o StageAssets(html, url, "js") \o StageAssets(html, url, "canonical")

\* the files under the resource directory
ResourceFiles ==
    {q \in DOMAIN files : MatchAt(q, OnDisk(resourceDir) \o <<"/">>, 1)}

PageFilePresent == OnDisk(resolve(outputDir, generateFilename(url))) \in DOMAIN files

SavedPage == files[OnDisk(resolve(outputDir, generateFilename(url)))]

\* C1 (as claimed): whenever load returns, the value returned is outputDir joined
\* with pageFileName(url), and the page file exists at that path.
C1_ReturnsJoinedPath ==
    result.state = "returned" =>
        /\ result.value = join(outputDir, generateFilename(url))
        /\ OnDisk(result.value) \in DOMAIN files

\* C1 (amended): whenever load returns, the value returned is the absolute path
\* path.resolve(outputDir, pageFileName(url)) - outputDir joined with the page
\* file name when outputDir is absolute, the working directory joined with both
\* when it is relative - and the page file exists at that path.
C1_ReturnsResolvedPath ==
    result.state = "returned" =>
        LET name == generateFilename(url)
        IN  /\ result.value = IF outputDir[1] = "/"
                              THEN outputDir \o <<"/">> \o name
                              ELSE Cwd \o <<"/">> \o outputDir \o <<"/">> \o name
            /\ result.value \in DOMAIN files
            /\ pc = "done"

C1_Witness ==
    /\ result.state = "returned"
    /\ outputDir = <<"o">>
    /\ result.value = Cwd \o <<"/", "o", "/", "h", "-", "p", ".", "h", "t", "m", "l">>
    /\ result.value \in DOMAIN files

\* the document holds none of the substrings '<img', '<link', '<script'
NoCandidateTags(doc) == \A i \in 1..Len(doc) : doc[i] \notin {"<img", "<link", "<script"}

C3_NoAssetsNoDirectory ==
    (PageFetched /\ QualifyingAssets = <<>>) =>
        /\ OnDisk(resourceDir) \notin dirs
        /\ pc = "done" => SavedPage = html

\* the local file name of a qualifying asset, and its path relative to the page
LocalName(a) == generateResourceFileName(a.url)
LocalRef(a)  == generateResourceDirName(url) \o <<"/">> \o LocalName(a)

\* the fetched page holds one of the substrings, so load scans it
Scanned == PageFetched /\ ~NoCandidateTags(html)

\* C4 (as claimed): after a successful load of a page with N same-origin asset
\* references, the resource directory contains exactly N files (checked on the
\* pages load scans).
C4_ExactlyNFiles ==
    (pc = "done" /\ Scanned) => Cardinality(ResourceFiles) = Len(QualifyingAssets)

\* C4 (amended): after a successful load of a page that holds '<img', '<link'
\* or '<script', the resource directory contains exactly one file per distinct
\* local file name among the N same-origin references: N files when the names
\* are pairwise distinct, fewer when two references resolve to the same URL or
\* normalize to the same name.  Without those substrings nothing is downloaded.
C4_OneFilePerLocalName ==
    pc = "done" =>
        LET as    == IF Scanned THEN QualifyingAssets ELSE <<>>
            names == {LocalName(as[i]) : i \in 1..Len(as)}
        IN  /\ ResourceFiles = {OnDisk(outputDir \o <<"/">> \o generateResourceDirName(url)
                                          \o <<"/">> \o n) : n \in names}
            /\ Cardinality(ResourceFiles) = Cardinality(names)
            /\ Cardinality(ResourceFiles) <= Len(as)
            /\ Cardinality(DOMAIN files) = Cardinality(names) + 1

C4_Witness ==
    /\ pc = "done"
    /\ Len(QualifyingAssets) = 2
    /\ QualifyingAssets[1].ref # QualifyingAssets[2].ref
    /\ Cardinality(ResourceFiles) = 1

\* the stage an element is selected by, "none" when no selector matches it
KindOf(el) ==
    IF Selected(el, "img") THEN "img"
    ELSE IF Selected(el, "css") THEN "css"
    ELSE IF Selected(el, "js") THEN "js"
    ELSE IF Selected(el, "canonical") THEN "canonical"
    ELSE "none"

HasRef(el) == KindOf(el) # "none" /\ RefOf(el, KindOf(el)) # <<>>

SameHost(el) == Hostname(ResolveUrl(RefOf(el, KindOf(el)), url)) = Hostname(url)

\* C5 (as claimed): after a successful load every one of the N same-origin
\* references of the page carries, in the saved page, the local path of its own
\* asset, whatever its kind and however it is written (checked on the pages
\* load scans).
C5_EveryReferenceRewritten ==
    (pc = "done" /\ Scanned) =>
        LET E0 == CheerioLoad(html)
            E1 == CheerioLoad(SavedPage)
        IN  /\ Len(E1) = Len(E0)
            /\ \A i \in 1..Len(E0) :
                  (HasRef(E0[i]) /\ SameHost(E0[i])) =>
                      RefOf(E1[i], KindOf(E0[i])) =
                          LocalRef([url |-> ResolveUrl(RefOf(E0[i], KindOf(E0[i])), url)])

\* C6 (as claimed): after a successful load every external reference of the
\* fetched page is unchanged in the saved page, also when a local reference is
\* a substring of an external reference that occurs earlier in the document.
C6_ExternalReferencesUntouched ==
    pc = "done" =>
        LET E0 == CheerioLoad(html)
            E1 == CheerioLoad(SavedPage)
        IN  /\ Len(E1) = Len(E0)
            /\ \A i \in 1..Len(E0) :
                  (HasRef(E0[i]) /\ ~SameHost(E0[i])) =>
                      RefOf(E1[i], KindOf(E0[i])) = RefOf(E0[i], KindOf(E0[i]))

\* the references of the fetched page that resolve to another host
ExternalUrls ==
    LET E0 == CheerioLoad(html)
    IN  {ResolveUrl(RefOf(E0[i], KindOf(E0[i])), url) :
            i \in {j \in 1..Len(E0) : HasRef(E0[j]) /\ ~SameHost(E0[j])}}

\* C7: every request load issues targets the host of the page URL; a reference
\* that resolves to another host is never requested.
C7_OnlySameHostRequested ==
    /\ \A i \in 1..Len(requests) : Hostname(requests[i]) = Hostname(url)
    /\ \A i \in 1..Len(requests) : requests[i] \notin ExternalUrls

C7_Witness ==
    /\ pc = "done"
    /\ ExternalUrls # {}
    /\ Len(requests) = 2

\* C8: once a resource fetch or a resource file write of a load has failed, the
\* page file is never written, and no load that ends in failure leaves a page
\* file behind.
C8_NoPageFileAfterFailure ==
    /\ (\E i \in 1..Len(tasks) : tasks[i].st = "failed") => ~PageFilePresent
    /\ result.state = "thrown" => ~PageFilePresent

C8_Witness ==
    /\ result.state = "thrown"
    /\ \E i, j \in 1..Len(tasks) :
          /\ tasks[i].st = "failed"
          /\ tasks[i].resp = Ok200
          /\ tasks[j].st = "done"
    /\ ResourceFiles # {}
    /\ ~PageFilePresent

\* the stylesheet assets of the fetched page
Stylesheets == StageAssets(html, url, "css")

NotFoundResource(u) == Err("Resource not found (404)", 0, u, None)

\* C9 (as claimed): when a same-origin stylesheet of the page answers 404, load
\* rejects with 'Resource not found (404)' naming that stylesheet, whatever the
\* other same-origin assets of the page are and however their fetches end.  In
\* every run in which stylesheet a is answered 404 whenever it is asked, a load
\* that a resource failure has ended has thrown that error.
C9_StylesheetNotFoundWins ==
    \A k \in 1..Len(Stylesheets) :
        LET a == Stylesheets[k]
        IN  ( /\ PageFetched
              /\ result.state = "thrown"
              /\ \E i \in 1..Len(tasks) : tasks[i].st = "failed" /\ tasks[i].err = result.error
              /\ \A i \in 1..Len(tasks) :
                    (tasks[i].kind = "css" /\ tasks[i].url = a.url) =>
                        (tasks[i].st = "fetching" \/ tasks[i].resp.status = 404) )
            => result.error = NotFoundResource(a.url)

\* the error the table of the specification gives for a failed page request
TableError(f, u) ==
    CASE f.status = 404          -> Err("Page not found (404)", 0, u, None)
      [] f.status = 403          -> Err("Access forbidden (403)", 0, u, None)
      [] f.status >= 500         -> Err("Server error", f.status, u, None)
      [] f.code = "ENOTFOUND"    -> Err("Cannot resolve hostname", 0, u, None)
      [] f.code = "ECONNREFUSED" -> Err("Connection refused", 0, u, None)
      [] f.code = "ETIMEDOUT"    -> Err("Request timeout", 0, u, None)
      [] OTHER                   -> Err("Network error", 0, u, f.message)

\* C10: when the page request fails, load rejects with the error of the table
\* (404, 403, >= 500, ENOTFOUND, ECONNREFUSED, ETIMEDOUT, anything else), the
\* message names the page URL, and nothing is written to disk.
C10_PageFailureMapping ==
    pageResp \in Failures =>
        /\ result = Thrown(TableError(pageResp, url))
        /\ result.error.subject = url
        /\ files = <<>>
        /\ dirs = InitialDirs
        /\ requests = <<url>>

C10_Witness ==
    /\ pageResp.status = 403
    /\ result.state = "thrown"
    /\ result.error.text = "Access forbidden (403)"
    /\ files = <<>>

\* the kind of an error, read off its message
ErrorKind(e) ==
    CASE e.text \in {"Page not found (404)", "Image not found (404)", "Resource not found (404)"}
                                               -> "NotFound"
      [] e.text = "Access forbidden (403)"     -> "Forbidden"
      [] e.text = "Server error"               -> "ServerError"
      [] e.text \in {"Cannot resolve hostname", "Cannot resolve hostname for image",
                     "Cannot resolve hostname for resource"}
                                               -> "HostUnresolved"
      [] e.text = "Connection refused"         -> "ConnectionRefused"
      [] e.text = "Request timeout"            -> "Timeout"
      [] OTHER                                 -> "NetworkError"

\* C11 (as claimed): a failing resource request of any kind yields the error
\* kind the page request yields for the same failure condition.
C11_UniformMapping ==
    \A i \in 1..Len(tasks) :
        tasks[i].resp \in Failures =>
            ErrorKind(tasks[i].err) = ErrorKind(PageError(tasks[i].resp, tasks[i].url))

\* no promise of the page has rejected yet
NoneFailed(ts) == \A i \in 1..Len(ts) : ts[i].st # "failed"

\* the promises whose request has just failed
JustFailedFetch ==
    {i \in 1..Len(tasks) : tasks[i].st = "fetching" /\ tasks'[i].st = "failed"}

\* C12: when a resource request fails and no promise of the page has failed
\* before, load rejects in that very step with the error of that request,
\* whatever the other requests in flight are doing; and the error load has
\* rejected with is never replaced by a later failure.
C12_FirstFailureWins ==
    [][ /\ (NoneFailed(tasks) /\ JustFailedFetch # {}) =>
              \E i \in JustFailedFetch : pc' = "failed" /\ result' = Thrown(tasks'[i].err)
        /\ result.state = "thrown" => result' = result ]_vars

C12_Witness ==
    /\ result.state = "thrown"
    /\ \E i, j \in 1..Len(tasks) :
          /\ tasks[i].st = "failed"
          /\ tasks[i].resp \in Failures
          /\ result.error = tasks[i].err
          /\ tasks[j].st = "fetching"

\* the file of task i holds what that task has written
Kept(i) ==
    /\ OnDisk(TaskFile(tasks[i])) \in DOMAIN files
    /\ files[OnDisk(TaskFile(tasks[i]))] = Stored(tasks[i].kind, tasks[i].url)

\* no other same-origin reference of the page has the local file name of task i
Unshared(i) ==
    Cardinality({j \in 1..Len(QualifyingAssets) :
                    LocalName(QualifyingAssets[j]) = LocalName(tasks[i])}) = 1

\* C13 (as claimed): load never deletes or truncates a file it has written:
\* every resource file whose write has completed is, from then on and also
\* after a failure of the load, present with the content written.
C13_WrittenFilesKept ==
    \A i \in 1..Len(tasks) : tasks[i].st = "done" => Kept(i)

\* C13 (amended): every resource file whose write has completed and whose
\* local file name no other reference of the page shares is, from then on and
\* also after a failure of the load, present with the content written.
C13_UnsharedFilesKept ==
    \A i \in 1..Len(tasks) : (tasks[i].st = "done" /\ Unshared(i)) => Kept(i)

C13_Witness ==
    /\ pc = "failed"
    /\ \E i, j \in 1..Len(tasks) :
          /\ tasks[i].st = "done"
          /\ Unshared(i)
          /\ Kept(i)
          /\ tasks[j].st = "failed"
          /\ tasks[j].resp.status = 404
          /\ result.error = tasks[j].err

\* C14 (as claimed): for every fetched asset of every kind, the file at
\* outputDir/resourceDirName/resourceFileName holds exactly the bytes of the
\* response body (stated for the files only one reference writes).
C14_FilesHoldResponseBytes ==
    \A i \in 1..Len(tasks) :
        (tasks[i].st = "done" /\ Unshared(i)) =>
            /\ OnDisk(join(join(outputDir, generateResourceDirName(url)),
                           generateResourceFileName(tasks[i].url))) \in DOMAIN files
            /\ files[OnDisk(TaskFile(tasks[i]))] = Body(tasks[i].url)

\* hostname + path of a URL with one trailing slash stripped
HostAndPath(u) ==
    LET full == Hostname(u) \o Pathname(u)
    IN  IF full[Len(full)] = "/" THEN SubSeq(full, 1, Len(full) - 1) ELSE full

\* name is the text t with every character outside [A-Za-z0-9] replaced by
\* '-', followed by the suffix
IsSubstituted(name, t, suffix) ==
    /\ Len(name) = Len(t) + Len(suffix)
    /\ \A k \in 1..Len(t) : name[k] = (IF t[k] \in AlNum THEN t[k] ELSE "-")
    /\ SubSeq(name, Len(t) + 1, Len(name)) = suffix

\* C15: for every page URL, pageFileName is hostname + path with one trailing
\* slash stripped, every character outside [A-Za-z0-9] replaced by '-', and
\* '.html' appended; resourceDirName is the same stem with '_files' appended.
C15_PageNames ==
    \A k \in 1..Len(calls) :
        LET c == calls[k]
        IN  /\ c.fn = "generateFilename" =>
                  IsSubstituted(c.value, HostAndPath(c.arg), <<".", "h", "t", "m", "l">>)
            /\ c.fn = "generateResourceDirName" =>
                  IsSubstituted(c.value, HostAndPath(c.arg), <<"_", "f", "i", "l", "e", "s">>)

C15_Witness ==
    /\ Len(calls) = 2
    /\ calls[1].arg = <<Scheme, "r", "u", ".", "h", "e", "x", "l", "e", "t", ".", "i", "o", "/", "c", "o", "u", "r", "s", "e", "s">>
    /\ calls[1].fn = "generateFilename"
    /\ calls[1].value = <<"r", "u", "-", "h", "e", "x", "l", "e", "t", "-", "i", "o", "-", "c", "o", "u", "r", "s", "e", "s", ".", "h", "t", "m", "l">>
    /\ calls[2].arg = calls[1].arg
    /\ calls[2].fn = "generateResourceDirName"
    /\ calls[2].value = <<"r", "u", "-", "h", "e", "x", "l", "e", "t", "-", "i", "o", "-", "c", "o", "u", "r", "s", "e", "s", "_", "f", "i", "l", "e", "s">>

\* the path without the extension at the end of its last segment
WithoutFinalExtension(path) ==
    LET ext      == extname(path)
        NonSlash == {j \in 1..Len(path) : path[j] # "/"}
        end      == IF NonSlash = {} THEN 0 ELSE CHOOSE j \in NonSlash : \A k \in NonSlash : j >= k
    IN  SubSeq(path, 1, end - Len(ext)) \o SubSeq(path, end + 1, Len(path))

\* C16 (as claimed): for every resource URL, resourceFileName is the
\* substitution of hostname + path without its final extension, followed by
\* that extension ('.html' for a path without one); only the extension at the
\* end of the path is stripped, also when its text occurs earlier in the path.
C16_ResourceFileNames ==
    \A k \in 1..Len(calls) :
        LET c    == calls[k]
            path == Pathname(c.arg)
            ext  == IF extname(path) = <<>> THEN <<".", "h", "t", "m", "l">> ELSE extname(path)
        IN  c.fn = "generateResourceFileName" =>
                IsSubstituted(c.value, Hostname(c.arg) \o WithoutFinalExtension(path), ext)

Collide(i, j) ==
    /\ tasks[i].url # tasks[j].url
    /\ TaskFile(tasks[i]) = TaskFile(tasks[j])

\* C18 (as claimed): when two distinct resource URLs of a page normalize to
\* the same local file name and load succeeds, the file holds the complete
\* payload of exactly one of the two downloads.
C18_CollisionKeepsOnePayload ==
    pc = "done" =>
        \A i, j \in 1..Len(tasks) :
            Collide(i, j) =>
                files[OnDisk(TaskFile(tasks[i]))]
                    \in {Stored(tasks[i].kind, tasks[i].url), Stored(tasks[j].kind, tasks[j].url)}

\* the taxonomy kind an error message of load stands for, "none" for a message
\* load has not composed
TaxonomyKind(e) ==
    CASE e.text \in {"Page not found (404)", "Image not found (404)", "Resource not found (404)"}
                                               -> "NotFound"
      [] e.text = "Access forbidden (403)"     -> "Forbidden"
      [] e.text = "Server error"               -> "ServerError"
      [] e.text \in {"Cannot resolve hostname", "Cannot resolve hostname for image",
                     "Cannot resolve hostname for resource"}
                                               -> "HostUnresolved"
      [] e.text = "Connection refused"         -> "ConnectionRefused"
      [] e.text = "Request timeout"            -> "Timeout"
      [] e.text \in {"Network error", "Failed to download image", "Failed to download resource"}
                                               -> "NetworkError"
      [] e.text \in {"Permission denied: Cannot create directory",
                     "Permission denied: Cannot write to"}
                                               -> "PermissionDenied"
      [] e.text \in {"No space left on device: Cannot create directory",
                     "No space left on device"}
                                               -> "DiskFull"
      [] e.text = "Directory not found"        -> "DirectoryMissing"
      [] e.text \in {"Failed to create directory", "File system error"}
                                               -> "FilesystemError"
      [] OTHER                                 -> "none"

\* C20 (as claimed): every rejection of load, whatever stage fails, is an
\* error of one of the taxonomy kinds, wrapped with the operation and the URL
\* or path concerned (named by load, or by the message of the underlying
\* error that load's message embeds).
C20_EveryRejectionWrapped ==
    result.state = "thrown" =>
        /\ TaxonomyKind(result.error) # "none"
        /\ result.error.subject # <<>> \/ result.error.cause # None

\* what holds of an invocation that runs alone: its page file holds what it
\* saved, a page without candidate tags is saved only into a directory that
\* existed, every file only it writes holds what it wrote, and its resource
\* directory holds no file but those of its own downloads
PageFileIsOwn == pc = "done" => SavedPage = modifiedHtml

PlainPageNeedsDirectory ==
    (result.state = "returned" /\ ~Scanned) => OnDisk(outputDir) \in InitialDirs

ResourceDirIsOwn ==
    ResourceFiles \subseteq {OnDisk(TaskFile(tasks[i])) : i \in 1..Len(tasks)}

\* the second invocation has been made, for a page whose file name and
\* resource directory name differ from those of the first
NamesDiffer ==
    /\ other.pc # "idle"
    /\ generateFilename(other.url) # generateFilename(url)
    /\ generateResourceDirName(other.url) # generateResourceDirName(url)

\* C19 (as claimed): two interleaved invocations for different page URLs and
\* the same outputDir are independent: the result, the saved page and the
\* resource files of one are what it produces when it runs alone.
C19_LoadsIndependent ==
    /\ PageFileIsOwn
    /\ PlainPageNeedsDirectory
    /\ C13_UnsharedFilesKept
    /\ ResourceDirIsOwn

\* C19 (amended): when the two page URLs normalize to different names and
\* outputDir exists before the calls, the saved page and the resource files
\* of one invocation are what it produces when it runs alone.
C19_IndependentWhenNamesDiffer ==
    (NamesDiffer /\ OnDisk(outputDir) \in InitialDirs) =>
        /\ PageFileIsOwn
        /\ C13_UnsharedFilesKept
        /\ ResourceDirIsOwn

C19_Witness ==
    /\ NamesDiffer
    /\ OnDisk(outputDir) \in InitialDirs
    /\ pc = "done"
    /\ other.pc = "done"
    /\ \E i \in 1..Len(tasks) : tasks[i].st = "done" /\ Kept(i)
    /\ OnDisk(OtherFilepath) \in DOMAIN files
    /\ SavedPage = modifiedHtml

\* C21 (as claimed): when the output directory passed to load does not exist,
\* load does not create it and does not return a path: it can only reject,
\* for a page that contains a same-origin image as for one without candidate
\* tags.
C21_MissingDirectoryRejects ==
    (pc # "idle" /\ OnDisk(outputDir) \notin InitialDirs) =>
        /\ OnDisk(outputDir) \notin dirs
        /\ result.state # "returned"

\* C22 (as claimed): all qualifying fetches of a page, of all four kinds, run
\* concurrently: while load waits for resource fetches, the fetch of every
\* qualifying asset of the page has been issued.
C22_AllFetchesIssuedBeforeWaiting ==
    pc \in {"img", "css", "js", "canonical"} =>
        /\ Len(tasks) = Len(QualifyingAssets)
        /\ \A k \in 1..Len(QualifyingAssets) :
              \E n \in 2..Len(requests) : requests[n] = QualifyingAssets[k].url

\* C23 (as claimed): a run passes through FetchingPage, Scanning,
\* FetchingResources, Rewriting, Persisting, Done in that order: no reference
\* is substituted in the document before the fetch of every qualifying asset
\* of the page has completed, the page file is written only after the
\* substitutions, and a failed run enters no later stage.
C23_StagesInOrder ==
    /\ (tasks # <<>> /\ modifiedHtml # html) =>
          /\ Len(tasks) = Len(QualifyingAssets)
          /\ \A i \in 1..Len(tasks) : tasks[i].st = "done"
    /\ PageFilePresent => pc = "done"
    /\ pc = "failed" => result.state = "thrown"

\* C24 (as claimed): for a fetched image, script or canonical asset every
\* occurrence of its original reference in the document is replaced by the
\* local path: the saved page holds no occurrence of the reference any more
\* (references that occur inside their own local path are left aside).
C24_EveryOccurrenceReplaced ==
    pc = "done" =>
        \A i \in 1..Len(tasks) :
            ( /\ tasks[i].kind \in {"img", "js", "canonical"}
              /\ ~Includes(TaskNewRef(tasks[i]), tasks[i].ref) )
            => ~Includes(SavedPage, tasks[i].ref)

\* the text the stylesheet rewrite looks for, and the text it puts there
CssPattern(t)     == <<"href=", Q>> \o t.ref \o <<Q, " ", "/", ">">>
CssReplacement(t) == <<"href=", Q>> \o TaskNewRef(t) \o <<Q, ">">>

\* C25: for a fetched stylesheet the text 'href="<original>" />' is replaced
\* by 'href="<local>">'; when that text does not occur in the document, the
\* document keeps the original href and does not get the local one, while
\* the stylesheet file is written and load returns.
C25_StylesheetPatternRewrite ==
    pc = "done" =>
        \A i \in 1..Len(tasks) :
            tasks[i].kind = "css" =>
                /\ OnDisk(TaskFile(tasks[i])) \in DOMAIN files
                /\ result.state = "returned"
                /\ IF Includes(html, CssPattern(tasks[i]))
                   THEN /\ ~Includes(SavedPage, CssPattern(tasks[i]))
                        /\ Includes(SavedPage, CssReplacement(tasks[i]))
                   ELSE /\ Includes(SavedPage, <<"href=", Q>> \o tasks[i].ref \o <<Q>>)
                        /\ ~Includes(SavedPage, <<"href=", Q>> \o TaskNewRef(tasks[i]))

\* a load has returned for a page whose only stylesheet link is not
\* self-closing: the page is saved as fetched and the stylesheet is on disk
C25_Witness ==
    /\ pc = "done"
    /\ \E i \in 1..Len(tasks) :
          /\ tasks[i].kind = "css"
          /\ ~Includes(html, CssPattern(tasks[i]))
          /\ files[OnDisk(TaskFile(tasks[i]))] = Stored("css", tasks[i].url)
    /\ SavedPage = html

\* C26: no cancellation reaches the siblings of a failed fetch: the step in
\* which load rejects changes no file and no promise but the failed one, and
\* afterwards a promise that has written its file keeps it written; so a
\* sibling in flight can still write its file after load has rejected.
C26_SiblingsNotCancelled ==
    [][ /\ (pc # "failed" /\ pc' = "failed" /\ tasks # <<>>) =>
              /\ files' = files
              /\ \A j \in 1..Len(tasks) :
                    tasks'[j] # tasks[j] => (tasks'[j].st = "failed" /\ tasks'[j].err = result'.error)
        /\ pc = "failed" =>
              \A j \in 1..Len(tasks) : tasks[j].st = "done" => tasks'[j] = tasks[j] ]_vars

\* load has rejected with the error of one fetch, and a sibling has written
\* its complete file into the resource directory after that
C26_Witness ==
    /\ pc = "failed"
    /\ result.state = "thrown"
    /\ \E j \in 1..Len(tasks) : tasks[j].st = "failed" /\ tasks[j].err = result.error
    /\ \E i \in 1..Len(tasks) :
          /\ tasks[i].st = "done"
          /\ tasks[i].late
          /\ files[OnDisk(TaskFile(tasks[i]))] = Stored(tasks[i].kind, tasks[i].url)

\* the number of requests made for URL u
TimesRequested(u) == Cardinality({n \in 1..Len(requests) : requests[n] = u})

\* the promises created so far are those of the first qualifying references
\* of the page, one per reference, in the order of the stages
OnePromisePerReference ==
    /\ Len(tasks) <= Len(QualifyingAssets)
    /\ \A i \in 1..Len(tasks) :
          tasks[i].ref = QualifyingAssets[i].ref /\ tasks[i].url = QualifyingAssets[i].url

\* C27 (as claimed): no request is re-issued: the page URL is requested exactly
\* once, each qualifying reference at most once, also after a failed
\* response, and there are at most 1 + (number of qualifying references)
\* requests.
C27_PageUrlRequestedOnce ==
    pc # "idle" =>
        /\ TimesRequested(url) = 1
        /\ OnePromisePerReference
        /\ Len(requests) <= 1 + Len(QualifyingAssets)

\* C27 (amended): load makes one request for the page and one request per
\* promise, a promise being created at most once per qualifying reference;
\* nothing is requested again after a response or a failure.  (The page URL
\* itself is requested again when a canonical link refers to it.)
C27_OneRequestPerReference ==
    pc # "idle" =>
        /\ requests[1] = url
        /\ Len(requests) = 1 + Len(tasks)
        /\ \A i \in 1..Len(tasks) : requests[i + 1] = tasks[i].url
        /\ OnePromisePerReference

\* load has rejected after a request was answered with a failure, with two
\* resource requests made
C27_Witness ==
    /\ pc = "failed"
    /\ Len(tasks) = 2
    /\ Len(requests) = 3
    /\ \E i \in 1..Len(tasks) : tasks[i].st = "failed" /\ tasks[i].resp \in ResourceFailures

\* the number of places of s at which p occurs
CountOf(s, p) == Cardinality({n \in 1..Len(s) : MatchAt(s, p, n)})

\* the image, script and canonical promises whose substitution inserts path
InsertersOf(path) ==
    {j \in 1..Len(tasks) : tasks[j].kind # "css" /\ TaskNewRef(tasks[j]) = path}

\* C28 (as claimed): no substitution matches inside a local path that an
\* earlier substitution of the run inserted: every inserted local path is
\* intact in the saved page, which holds a local path as many times as
\* substitutions inserted it.
C28_InsertedPathsIntact ==
    pc = "done" =>
        \A i \in 1..Len(tasks) :
            tasks[i].kind # "css" =>
                CountOf(SavedPage, TaskNewRef(tasks[i])) >=
                    Cardinality(InsertersOf(TaskNewRef(tasks[i])))

\* C29 (as claimed): the pre-check is sound with respect to the scanner:
\* whenever load skips the scan because the fetched document holds none of
\* '<img', '<link', '<script', the scanner would find no qualifying
\* same-origin asset in that document.
C29_PreCheckSound ==
    (PageFetched /\ ~hasResources(html)) => QualifyingAssets = <<>>

====
